---- MODULE Spec2Model ----
(***************************************************************************)
(* A model of polymer-workspaces: the Workspace orchestrator               *)
(* (src/src/npm.ts, lines 87-302) and the GitHubConnection it drives       *)
(* (src/unnamed/part_000).                                                 *)
(*                                                                         *)
(* Spec      concurrent init() calls on one Workspace instance, one action *)
(*           per resumption point of init.                                 *)
(* SpecRun   one init() call and run() calls on one Workspace instance.    *)
(* SpecDet   one _determineGitHubRepos call, one action per resumption     *)
(*           point of it and of the GitHubConnection methods it awaits.    *)
(* SpecGh    a client of getRepoInfo and resetCache.                       *)
(* SpecList  a client of getOwnerRepos.                                    *)
(* SpecSync  one init() call with the tasks of its synchronization phase.  *)
(* SpecApi   one _determineGitHubRepos call and its requests in flight.    *)
(* SpecDisk  one init() call with the folders and files of the workspace.  *)
(***************************************************************************)
EXTENDS Integers, Sequences, FiniteSets, TLC

(***************************************************************************)
(* Bounds of the model.                                                    *)
(***************************************************************************)
NumInitCalls == 2
NumRunCalls == 2
MaxRepos == 2

InitCalls == 1..NumInitCalls
RunCalls == 1..NumRunCalls

(***************************************************************************)
(* Workspace state.                                                        *)
(***************************************************************************)
VARIABLES
  initializedRepos,  \* Workspace._initializedRepos: [set, repos]
  installed,         \* the external commands found on this machine
  ipc,               \* per init call: where it is awaiting
  irepos,            \* per init call: its local workspaceRepos
  ierr,              \* per init call: the error it threw, "" if none
  ieffects,          \* per init call: the outward-facing steps it has begun
  rpc,               \* per run call: where it is
  rrepos,            \* per run call: the array its for-of loop iterates
  rfn,               \* per run call: the log of fn invocations
  rsucc,             \* per run call: successRuns (positions, in push order)
  rfail,             \* per run call: failRuns (position -> error)
  rerr               \* per run call: the error run itself threw, "" if none

wsVars == <<initializedRepos, installed, ipc, irepos, ierr, ieffects>>
runVars == <<rpc, rrepos, rfn, rsucc, rfail, rerr>>

(***************************************************************************)
(* GitHubConnection state, and one _determineGitHubRepos call on it.       *)
(***************************************************************************)
VARIABLES
  cache,             \* GitHubConnection._cache: fullName -> GitHubRepoCached
  dpc,               \* where the _determineGitHubRepos call is
  dpatterns,         \* its repoPatterns argument
  dexcludes,         \* its excludes argument
  dallRepos,         \* expandRepoPatterns' allGitHubRepos, in insertion order
  dlookups,          \* one entry per element of ownersToLookup
  drefs,             \* repoRefs after the exclude filter
  dres,              \* per element of repoRefs: its getRepoInfo call
  dresult,           \* what the call returned
  derr               \* the error the call threw, "" if none

detVars == <<cache, dpc, dpatterns, dexcludes, dallRepos, dlookups, drefs,
             dres, dresult, derr>>

(***************************************************************************)
(* The tasks that one _cloneOrUpdateWorkspaceRepos call gave to            *)
(* localGitLimitter, in the order of the schedule() calls.                 *)
(***************************************************************************)
VARIABLES
  tasks              \* per task: [pc], where the task is

syncVars == <<tasks>>

(***************************************************************************)
(* The disk under Workspace.dir, and what one init call does to it.        *)
(***************************************************************************)
VARIABLES
  fresh,             \* options.fresh of the init call
  root,              \* whether the folder Workspace.dir exists
  disk,              \* short name -> the folder path.resolve(dir, name)
  disk0,             \* disk as it was when init was called
  pidx,              \* where _prepareWorkspaceFolders is
  manifest,          \* bower.json in Workspace.dir
  installs           \* how many times `bower install -F` was run

diskVars == <<fresh, root, disk, disk0, pidx, manifest, installs>>
vars == <<wsVars, runVars, detVars, syncVars, diskVars>>

RepoNames == {"a", "b"}
GitHubRepos == {[owner |-> "o", name |-> n] : n \in RepoNames}

SeqsUpTo(S, n) == UNION {[1..k -> S] : k \in 0..n}

\* What _determineGitHubRepos may return to init.
RepoLists == SeqsUpTo(GitHubRepos, MaxRepos)

Undefined == [set |-> FALSE, repos |-> <<>>]

\* path.resolve(this.dir, repo.name): the directory is the short name.
openWorkspaceRepo(repo) == [dir |-> repo.name, github |-> repo]

\* util/exec checkCommand: whether the command is available.
checkCommand(cmd) == cmd \in installed

\* `if (this._initializedRepos)` in _initValidate: any array is truthy.
InitValidateRejectsNever == FALSE

InitValidateRejects == initializedRepos.set

\* `if (!(await checkCommand(cmd)))` in _initValidate.
CommandMissingIgnored(cmd) == FALSE

CommandMissing(cmd) == ~checkCommand(cmd)

\* `if (!this._initializedRepos)` in run.
RunRejects == ~initializedRepos.set

\* The call throws e: its locals are gone.
Fail(c, e) ==
  /\ ipc' = [ipc EXCEPT ![c] = "failed"]
  /\ ierr' = [ierr EXCEPT ![c] = e]
  /\ irepos' = [irepos EXCEPT ![c] = <<>>]

(***************************************************************************)
(* init, up to the first await of _initValidate.                           *)
(***************************************************************************)
InitStart(c) ==
  /\ ipc[c] = "idle"
  /\ \A b \in InitCalls : b < c => ipc[b] # "idle"
  /\ IF InitValidateRejects
       THEN Fail(c, "AlreadyInitialized")
       ELSE /\ ipc' = [ipc EXCEPT ![c] = "checkGit"]
            /\ UNCHANGED <<ierr, irepos>>
  /\ UNCHANGED <<initializedRepos, installed, ieffects, runVars, detVars,
                 syncVars, diskVars>>

InitCheckGit(c) ==
  /\ ipc[c] = "checkGit"
  /\ IF CommandMissing("git")
       THEN Fail(c, "MissingDependency")
       ELSE /\ ipc' = [ipc EXCEPT ![c] = "checkBower"]
            /\ UNCHANGED <<ierr, irepos>>
  /\ UNCHANGED <<initializedRepos, installed, ieffects, runVars, detVars,
                 syncVars, diskVars>>

\* After the last check init goes on to call _determineGitHubRepos, which
\* is where the hosting API is used.
InitCheckBower(c) ==
  /\ ipc[c] = "checkBower"
  /\ IF CommandMissing("bower")
       THEN /\ Fail(c, "MissingDependency")
            /\ UNCHANGED ieffects
       ELSE /\ ipc' = [ipc EXCEPT ![c] = "determine"]
            /\ ieffects' = [ieffects EXCEPT ![c] = @ \cup {"api"}]
            /\ UNCHANGED <<ierr, irepos>>
  /\ UNCHANGED <<initializedRepos, installed, runVars, detVars,
                 syncVars, diskVars>>

\* One awaited step of init: it throws, or it returns `repos` and init goes
\* on to begin `effect`.
Step(c, from, to, effect, error, repos) ==
  /\ ipc[c] = from
  /\ \/ /\ Fail(c, error)
        /\ UNCHANGED ieffects
     \/ /\ ipc' = [ipc EXCEPT ![c] = to]
        /\ ieffects' = [ieffects EXCEPT ![c] = @ \cup {effect}]
        /\ irepos' = [irepos EXCEPT ![c] = repos]
        /\ UNCHANGED ierr
  /\ UNCHANGED <<initializedRepos, installed, runVars, detVars,
                 syncVars, diskVars>>

(***************************************************************************)
(* await this._determineGitHubRepos(...), then map(_openWorkspaceRepo),    *)
(* then the call of _prepareWorkspaceFolders. What it returns is modelled  *)
(* in detail under SpecDet; here it is any list of resolved repositories.  *)
(***************************************************************************)
InitDetermine(c) ==
  \E repos \in RepoLists :
    Step(c, "determine", "prepare", "prepare", "DetermineFailed",
         [i \in 1..Len(repos) |-> openWorkspaceRepo(repos[i])])

\* await this._prepareWorkspaceFolders(workspaceRepos, options)
InitPrepare(c) ==
  Step(c, "prepare", "sync", "sync", "PrepareFailed", irepos[c])

\* await this._cloneOrUpdateWorkspaceRepos(workspaceRepos)
InitSync(c) ==
  Step(c, "sync", "configure", "configure", "SyncFailed", irepos[c])

\* await this._configureBowerWorkspace(workspaceRepos)
InitConfigure(c) ==
  Step(c, "configure", "install", "install", "ConfigureFailed", irepos[c])

(***************************************************************************)
(* await this._installWorkspaceDependencies(), then                        *)
(* this._initializedRepos = workspaceRepos; return.                        *)
(***************************************************************************)
InitializedAfterInstallEarly(c, ok) == [set |-> TRUE, repos |-> irepos[c]]

InitializedAfterInstall(c, ok) ==
  IF ok THEN [set |-> TRUE, repos |-> irepos[c]] ELSE initializedRepos

InitInstall(c) ==
  /\ ipc[c] = "install"
  /\ \E ok \in BOOLEAN :
       /\ initializedRepos' = InitializedAfterInstall(c, ok)
       /\ IF ok
            THEN /\ ipc' = [ipc EXCEPT ![c] = "done"]
                 /\ UNCHANGED <<ierr, irepos>>
            ELSE Fail(c, "InstallFailed")
  /\ UNCHANGED <<installed, ieffects, runVars, detVars,
                 syncVars, diskVars>>

(***************************************************************************)
(* run(fn)                                                                 *)
(***************************************************************************)
FnResults == {"ok", "E1"}

InFlight(r) == {i \in 1..Len(rfn[r]) : ~rfn[r][i].settled}

RunStart(r) ==
  /\ rpc[r] = "idle"
  /\ \A q \in RunCalls : q < r => rpc[q] # "idle"
  /\ IF RunRejects
       THEN /\ rpc' = [rpc EXCEPT ![r] = "failed"]
            /\ rerr' = [rerr EXCEPT ![r] = "NotInitialized"]
            /\ UNCHANGED rrepos
       ELSE /\ rpc' = [rpc EXCEPT ![r] = "loop"]
            /\ rrepos' = [rrepos EXCEPT ![r] = initializedRepos.repos]
            /\ UNCHANGED rerr
  /\ UNCHANGED <<wsVars, detVars, syncVars, diskVars,
                 rfn, rsucc, rfail>>

\* `await fn(workspaceRepo)`: the loop body resumes when the call settled.
RunMayInvokeNoAwait(r) == TRUE

RunMayInvoke(r) == InFlight(r) = {}

RunInvoke(r) ==
  /\ rpc[r] = "loop"
  /\ Len(rfn[r]) < Len(rrepos[r])
  /\ RunMayInvoke(r)
  /\ \E res \in FnResults :
       rfn' = [rfn EXCEPT
                 ![r] = Append(@, [repo |-> rrepos[r][Len(rfn[r]) + 1],
                                   result |-> res, settled |-> FALSE])]
  /\ UNCHANGED <<wsVars, detVars, syncVars, diskVars,
                 rpc, rrepos, rsucc, rfail, rerr>>

\* The try/catch around `await fn(workspaceRepo)`.
RunAfterSettleNoCatch(r, i) ==
  IF rfn[r][i].result = "ok"
    THEN [pc |-> "loop", succ |-> Append(rsucc[r], i), fail |-> rfail[r],
          err |-> ""]
    ELSE [pc |-> "failed", succ |-> rsucc[r], fail |-> rfail[r],
          err |-> rfn[r][i].result]

RunAfterSettle(r, i) ==
  IF rfn[r][i].result = "ok"
    THEN [pc |-> "loop", succ |-> Append(rsucc[r], i), fail |-> rfail[r],
          err |-> ""]
    ELSE [pc |-> "loop", succ |-> rsucc[r],
          fail |-> rfail[r] \cup {<<i, rfn[r][i].result>>}, err |-> ""]

RunSettle(r) ==
  /\ rpc[r] = "loop"
  /\ \E i \in InFlight(r) :
       LET after == RunAfterSettle(r, i)
       IN /\ rfn' = [rfn EXCEPT ![r][i].settled = TRUE]
          /\ rpc' = [rpc EXCEPT ![r] = after.pc]
          /\ rsucc' = [rsucc EXCEPT ![r] = after.succ]
          /\ rfail' = [rfail EXCEPT ![r] = after.fail]
          /\ rerr' = [rerr EXCEPT ![r] = after.err]
  /\ UNCHANGED <<wsVars, detVars, syncVars, diskVars,
                 rrepos>>

RunReturn(r) ==
  /\ rpc[r] = "loop"
  /\ Len(rfn[r]) = Len(rrepos[r])
  /\ InFlight(r) = {}
  /\ rpc' = [rpc EXCEPT ![r] = "done"]
  /\ UNCHANGED <<wsVars, detVars, syncVars, diskVars,
                 rrepos, rfn, rsucc, rfail, rerr>>

(***************************************************************************)
(* Strings are sequences of one-character strings.                         *)
(***************************************************************************)
Contains(s, ch) == \E i \in 1..Len(s) : s[i] = ch

\* String.prototype.indexOf, 1-based; 0 when ch does not occur.
IndexOf(s, ch) ==
  IF Contains(s, ch)
    THEN CHOOSE i \in 1..Len(s) : s[i] = ch /\ \A j \in 1..(i - 1) : s[j] # ch
    ELSE 0

\* String.prototype.split on a one-character separator.
RECURSIVE Split(_, _)
Split(s, ch) ==
  LET i == IndexOf(s, ch)
  IN IF i = 0 THEN <<s>>
     ELSE <<SubSeq(s, 1, i - 1)>> \o Split(SubSeq(s, i + 1, Len(s)), ch)

LowerChar(ch) ==
  CASE ch = "O" -> "o"
    [] ch = "A" -> "a"
    [] ch = "B" -> "b"
    [] OTHER -> ch

\* String.prototype.toLowerCase
ToLowerCase(s) == [i \in 1..Len(s) |-> LowerChar(s[i])]

\* `x || y` on strings: the empty string (and undefined, modelled as the
\* empty string) is falsy.
OrElse(x, y) == IF x = <<>> THEN y ELSE x

\* fullNameToGithubRepoReference: throws unless the part before the first
\* '#' has exactly one '/' and there is at most one '#'.
fullNameToGithubRepoReference(pattern) ==
  LET hashSplit == Split(pattern, "#")
      slashSplit == Split(hashSplit[1], "/")
  IN IF Len(slashSplit) # 2 \/ Len(hashSplit) > 2
       THEN [threw |-> TRUE]
       ELSE [threw |-> FALSE,
             value |-> [fullName |-> hashSplit[1],
                        owner |-> slashSplit[1],
                        name |-> slashSplit[2],
                        ref |-> IF Len(hashSplit) = 2 THEN hashSplit[2]
                                                      ELSE <<>>]]

(***************************************************************************)
(* The hosting API: what it knows, and how it answers.                     *)
(***************************************************************************)
ApiRepo(owner, name, private) ==
  [owner |-> [login |-> owner], name |-> name,
   full_name |-> owner \o <<"/">> \o name,
   clone_url |-> <<"u", ":">> \o owner \o <<"/">> \o name,
   default_branch |-> <<"m">>, private |-> private]

\* The listing of owner "o", page by page; the last page is short.
WorldPages ==
  << <<ApiRepo(<<"o">>, <<"a">>, FALSE), ApiRepo(<<"o">>, <<"c">>, TRUE)>>,
     <<ApiRepo(<<"o">>, <<"b">>, FALSE)>> >>

\* The listing of owner "p": its first page holds private repositories
\* only.
WorldPagesP ==
  << <<ApiRepo(<<"p">>, <<"c">>, TRUE)>>,
     <<ApiRepo(<<"p">>, <<"b">>, FALSE)>> >>

WorldListing(owner) ==
  IF owner = <<"o">> THEN WorldPages
  ELSE IF owner = <<"p">> THEN WorldPagesP
  ELSE <<>>

WorldOwners == {<<"o">>, <<"p">>}

WorldRepos ==
  UNION {{WorldListing(o)[p][i] : i \in 1..Len(WorldListing(o)[p])} :
           o \in WorldOwners, p \in 1..2}

\* repos.getForOrg / repos.getForUser ({page}) when they succeed.
WorldPage(owner, page) ==
  IF page < Len(WorldListing(owner)) THEN WorldListing(owner)[page + 1]
                                     ELSE <<>>

\* repos.get({owner, repo}): names are matched whatever their letter case.
WorldFind(owner, name) ==
  {r \in WorldRepos : /\ r.owner.login = ToLowerCase(owner)
                      /\ r.name = ToLowerCase(name)}

formatGitHubRepoFromApi(obj) ==
  [owner |-> obj.owner.login, name |-> obj.name, fullName |-> obj.full_name,
   cloneUrl |-> obj.clone_url, defaultBranch |-> obj.default_branch]

\* Map.prototype.set
MapSet(m, k, v) == [x \in DOMAIN m \cup {k} |-> IF x = k THEN v ELSE m[x]]

RECURSIVE CacheAll(_, _)
CacheAll(m, repos) ==
  IF repos = <<>> THEN m
  ELSE CacheAll(MapSet(m, Head(repos).fullName, Head(repos)), Tail(repos))

(***************************************************************************)
(* expandRepoPatterns                                                      *)
(***************************************************************************)
\* Set.prototype.add on a Set of strings: equal strings are one element.
AddString(set, str) ==
  IF \E i \in 1..Len(set) : set[i] = str THEN set ELSE Append(set, str)

\* Set.prototype.add on a Set of objects: every object literal is a new
\* element, whatever its fields.
AddObject(set, obj) == Append(set, obj)

\* The for loop over repoPatterns.
RECURSIVE ScanPatterns(_, _, _)
ScanPatterns(pats, refs, owners) ==
  IF pats = <<>> THEN [threw |-> FALSE, refs |-> refs, owners |-> owners]
  ELSE LET p == Head(pats)
       IN IF ~Contains(p, "/")
            THEN ScanPatterns(Tail(pats), refs, owners)
          ELSE IF Contains(p, "*")
            THEN ScanPatterns(Tail(pats), refs, AddString(owners, p))
          ELSE LET r == fullNameToGithubRepoReference(p)
               IN IF r.threw
                    THEN [threw |-> TRUE, refs |-> refs, owners |-> owners]
                    ELSE ScanPatterns(Tail(pats), AddObject(refs, r.value),
                                      owners)

\* getOwnerRepos up to its first await: the organization-style request for
\* page 0 is issued. `requests` is the log of the requests of the call and
\* `failed` says that its user-style request failed.
GetOwnerReposStart(owner, ref) ==
  [owner |-> owner, ref |-> ref, pc |-> "org", page |-> 0, repos |-> <<>>,
   requests |-> <<[style |-> "org", page |-> 0]>>, failed |-> FALSE]

\* The owner and the ref of one element of ownersToLookup.
LookupOf(pattern) ==
  GetOwnerReposStart(
    ToLowerCase(SubSeq(pattern, 1, IndexOf(pattern, "/") - 1)),
    IF Contains(pattern, "#")
      THEN SubSeq(pattern, IndexOf(pattern, "#") + 1, Len(pattern))
      ELSE <<>>)

\* The forEach that gives every reference the default branch.
RECURSIVE AddOwnerReposDefaultBranch(_, _, _)
AddOwnerReposDefaultBranch(set, repos, ref) ==
  IF repos = <<>> THEN set
  ELSE AddOwnerReposDefaultBranch(
         AddObject(set, [owner |-> Head(repos).owner,
                         name |-> Head(repos).name,
                         fullName |-> Head(repos).fullName,
                         ref |-> Head(repos).defaultBranch]),
         Tail(repos), ref)

\* ownerCachedRepos.forEach(cachedRepo => allGitHubRepos.add({...}))
RECURSIVE AddOwnerRepos(_, _, _)
AddOwnerRepos(set, repos, ref) ==
  IF repos = <<>> THEN set
  ELSE AddOwnerRepos(
         AddObject(set, [owner |-> Head(repos).owner,
                         name |-> Head(repos).name,
                         fullName |-> Head(repos).fullName,
                         ref |-> OrElse(ref, Head(repos).defaultBranch)]),
         Tail(repos), ref)

\* response.data.filter(obj => !obj.private).map(formatGitHubRepoFromApi)
RECURSIVE PublicRepos(_)
PublicRepos(data) ==
  IF data = <<>> THEN <<>>
  ELSE (IF Head(data).private THEN <<>>
        ELSE <<formatGitHubRepoFromApi(Head(data))>>)
       \o PublicRepos(Tail(data))

(***************************************************************************)
(* _determineGitHubRepos                                                   *)
(***************************************************************************)
\* excludes.map(String.prototype.toLowerCase): map calls its callback with
\* `this` undefined, and toLowerCase throws a TypeError on an undefined
\* receiver, so the call throws as soon as there is one element.
MapUnboundToLowerCase(list) ==
  IF list = <<>> THEN [threw |-> FALSE, value |-> <<>>]
                 ELSE [threw |-> TRUE, value |-> <<>>]

\* repoRefs.filter(
\*   repoRef => !excludes.includes(repoRef.fullName.toLowerCase()))
RECURSIVE FilterExcluded(_, _)
FilterExcluded(refs, excludes) ==
  IF refs = <<>> THEN <<>>
  ELSE (IF \E i \in 1..Len(excludes) :
             excludes[i] = ToLowerCase(Head(refs).fullName)
          THEN <<>> ELSE <<Head(refs)>>)
       \o FilterExcluded(Tail(refs), excludes)

\* Object.assign({}, cachedRepo, {ref: repoReference.ref ||
\* cachedRepo.defaultBranch}): a copy of the cached metadata with the ref of
\* this call.
ApplyRef(cached, ref) ==
  [owner |-> cached.owner, name |-> cached.name,
   fullName |-> cached.fullName, cloneUrl |-> cached.cloneUrl,
   defaultBranch |-> cached.defaultBranch,
   ref |-> OrElse(ref, cached.defaultBranch)]

\* getRepoInfo up to its await: a cache hit returns at once, a miss parses
\* the fullName and issues repos.get (`request` says whether it did).
GetRepoInfoStartNoCache(ref) ==
  [ref |-> ref, status |-> "pending", repo |-> <<>>, request |-> TRUE]

GetRepoInfoStart(ref) ==
  IF ref.fullName \in DOMAIN cache
    THEN [ref |-> ref, status |-> "ok",
          repo |-> ApplyRef(cache[ref.fullName], ref.ref),
          request |-> FALSE]
  ELSE IF fullNameToGithubRepoReference(ref.fullName).threw
    THEN [ref |-> ref, status |-> "error", repo |-> <<>>,
          request |-> FALSE]
    ELSE [ref |-> ref, status |-> "pending", repo |-> <<>>,
          request |-> TRUE]

\* The try/catch around `await this._github.getRepoInfo(repoRef)`: a failed
\* lookup becomes a value, it never rejects the Promise.all.
ResolveErrorEscapesUncaught(status) == status = "error"

ResolveErrorEscapes(status) == FALSE

\* githubReposMaybe.filter(...): the entries that carry no error.
RECURSIVE WithoutErrors(_)
WithoutErrors(res) ==
  IF res = <<>> THEN <<>>
  ELSE (IF Head(res).status = "error" THEN <<>> ELSE <<Head(res).repo>>)
       \o WithoutErrors(Tail(res))

DetFail(e) ==
  /\ dpc' = "failed"
  /\ derr' = e

\* The call, up to the first await of expandRepoPatterns.
DetStart ==
  /\ dpc = "start"
  /\ LET lowered == MapUnboundToLowerCase(dexcludes)
         scan == ScanPatterns(dpatterns, <<>>, <<>>)
     IN IF lowered.threw
          THEN DetFail("TypeError") /\ UNCHANGED <<dallRepos, dlookups>>
        ELSE IF scan.threw
          THEN /\ DetFail("MalformedPattern")
               /\ UNCHANGED <<dallRepos, dlookups>>
        ELSE /\ dpc' = "expand"
             /\ dallRepos' = scan.refs
             /\ dlookups' = [k \in 1..Len(scan.owners) |->
                               LookupOf(scan.owners[k])]
             /\ UNCHANGED derr
  /\ UNCHANGED <<wsVars, runVars, syncVars, diskVars,
                 cache, dpatterns, dexcludes, drefs, dres,
                 dresult>>

\* getOwnerRepos: the answer to the listing request of call k arrives. A
\* failed organization-style request is followed by the user-style request
\* for the same page; a failed user-style request counts as an empty page.
GetOwnerReposResponse(k) ==
  /\ dlookups[k].pc \in {"org", "user"}
  /\ \E ok \in BOOLEAN :
       LET l == dlookups[k]
           pageRepos == IF ok THEN PublicRepos(WorldPage(l.owner, l.page))
                              ELSE <<>>
           allRepos == l.repos \o pageRepos
       IN IF ~ok /\ l.pc = "org"
            THEN /\ dlookups' = [dlookups EXCEPT
                                   ![k].pc = "user",
                                   ![k].requests =
                                      Append(@, [style |-> "user",
                                                 page |-> l.page])]
                 /\ UNCHANGED cache
          ELSE /\ cache' = CacheAll(cache, pageRepos)
               /\ dlookups' = [dlookups EXCEPT
                                 ![k].repos = allRepos,
                                 ![k].page = l.page + 1,
                                 ![k].pc = IF pageRepos # <<>> THEN l.pc
                                                               ELSE "done",
                                 ![k].failed = ~ok,
                                 ![k].requests =
                                    IF pageRepos # <<>>
                                      THEN Append(@, [style |-> l.pc,
                                                      page |-> l.page + 1])
                                      ELSE @]

\* expandRepoPatterns: a listing request of wildcard pattern k is answered;
\* when getOwnerRepos returns, its repositories are added.
LookupResponse(k) ==
  /\ dpc = "expand"
  /\ GetOwnerReposResponse(k)
  /\ dallRepos' = IF dlookups'[k].pc = "done"
                    THEN AddOwnerRepos(dallRepos, dlookups'[k].repos,
                                       dlookups[k].ref)
                    ELSE dallRepos
  /\ UNCHANGED <<wsVars, runVars, syncVars, diskVars,
                 dpc, dpatterns, dexcludes, drefs, dres,
                 dresult, derr>>

\* expandRepoPatterns returns; the exclude filter; every getRepoInfo call
\* is started.
ExpandReturn ==
  /\ dpc = "expand"
  /\ \A k \in 1..Len(dlookups) : dlookups[k].pc = "done"
  /\ LET refs == FilterExcluded(dallRepos,
                                MapUnboundToLowerCase(dexcludes).value)
     IN /\ drefs' = refs
        /\ dres' = [i \in 1..Len(refs) |-> GetRepoInfoStart(refs[i])]
  /\ dpc' = "resolve"
  /\ UNCHANGED <<wsVars, runVars, syncVars, diskVars,
                 cache, dpatterns, dexcludes, dallRepos,
                 dlookups, dresult, derr>>

\* What `await this._github.repos.get(...)` gives: the repository, a
\* response that says it has moved, or a thrown error.
GetResponses(owner, name) ==
  {[status |-> "200", data |-> d] : d \in WorldFind(owner, name)}
    \cup {[status |-> "301", data |-> <<>>]}

isRedirect(response) == response.status = "301"

\* getRepoInfo after its await: the cache is written only when the
\* response is not a redirect.
CacheAfterResponseUnchecked(ref, response) ==
  MapSet(cache, ref.fullName, response)

CacheAfterResponseWithRef(ref, response) ==
  IF response.status = "301"
    THEN cache
    ELSE MapSet(cache, ref.fullName,
                ApplyRef(formatGitHubRepoFromApi(response.data), ref.ref))

CacheAfterResponse(ref, response) ==
  IF isRedirect(response)
    THEN cache
    ELSE MapSet(cache, ref.fullName, formatGitHubRepoFromApi(response.data))

\* getRepoInfo: the answer to repos.get of call i arrives.
GetRepoInfoResponse(i) ==
  /\ dres[i].status = "pending"
  /\ LET ref == dres[i].ref
         parsed == fullNameToGithubRepoReference(ref.fullName).value
     IN \/ \E response \in GetResponses(parsed.owner, parsed.name) :
             /\ cache' = CacheAfterResponse(ref, response)
             /\ dres' = IF isRedirect(response)
                          THEN [dres EXCEPT ![i].status = "error",
                                            ![i].repo = "moved"]
                          ELSE [dres EXCEPT
                                  ![i].status = "ok",
                                  ![i].repo =
                                     ApplyRef(formatGitHubRepoFromApi(
                                                response.data), ref.ref)]
        \/ /\ dres' = [dres EXCEPT ![i].status = "error",
                                    ![i].repo = "apiError"]
           /\ UNCHANGED cache

\* _determineGitHubRepos: the getRepoInfo call of reference i settles.
ResolveResponse(i) ==
  /\ dpc = "resolve"
  /\ GetRepoInfoResponse(i)
  /\ IF ResolveErrorEscapes(dres'[i].status)
       THEN DetFail("ResolveFailed")
       ELSE UNCHANGED <<dpc, derr>>
  /\ UNCHANGED <<wsVars, runVars, syncVars, diskVars,
                 dpatterns, dexcludes, dallRepos, dlookups,
                 drefs, dresult>>

\* Promise.all has every entry; the final filter; return.
DetReturn ==
  /\ dpc = "resolve"
  /\ \A i \in 1..Len(dres) : dres[i].status # "pending"
  /\ dresult' = WithoutErrors(dres)
  /\ dpc' = "done"
  /\ UNCHANGED <<wsVars, runVars, syncVars, diskVars,
                 cache, dpatterns, dexcludes, dallRepos,
                 dlookups, drefs, dres, derr>>

(***************************************************************************)
(* Spec: every init call of a client that may call init several times      *)
(* without waiting (calls are numbered in the order they are made).        *)
(* SpecRun: the client calls init once, and run at any time.               *)
(***************************************************************************)
DetIdle ==
  /\ cache = <<>>
  /\ dpc = "unused"
  /\ dpatterns = <<>>
  /\ dexcludes = <<>>
  /\ dallRepos = <<>>
  /\ dlookups = <<>>
  /\ drefs = <<>>
  /\ dres = <<>>
  /\ dresult = <<>>
  /\ derr = ""

\* No file of the workspace is looked at.
DiskIdle ==
  /\ fresh = FALSE
  /\ root = FALSE
  /\ disk = <<>>
  /\ disk0 = <<>>
  /\ pidx = 0
  /\ manifest = <<>>
  /\ installs = 0

InitWorkspace(calls) ==
  /\ initializedRepos = Undefined
  /\ ipc = [c \in InitCalls |-> IF c \in calls THEN "idle" ELSE "unused"]
  /\ irepos = [c \in InitCalls |-> <<>>]
  /\ ierr = [c \in InitCalls |-> ""]
  /\ ieffects = [c \in InitCalls |-> {}]
  /\ rpc = [r \in RunCalls |-> "idle"]
  /\ rrepos = [r \in RunCalls |-> <<>>]
  /\ rfn = [r \in RunCalls |-> <<>>]
  /\ rsucc = [r \in RunCalls |-> <<>>]
  /\ rfail = [r \in RunCalls |-> {}]
  /\ rerr = [r \in RunCalls |-> ""]
  /\ tasks = <<>>

InitWith(calls) == InitWorkspace(calls) /\ DiskIdle

Init ==
  /\ InitWith(InitCalls)
  /\ installed \in SUBSET {"git", "bower"}
  /\ DetIdle

InitOnce ==
  /\ InitWith({1})
  /\ installed \in SUBSET {"git", "bower"}
  /\ DetIdle

NextInit ==
  \/ \E c \in InitCalls : InitStart(c)
  \/ \E c \in InitCalls : InitCheckGit(c)
  \/ \E c \in InitCalls : InitCheckBower(c)
  \/ \E c \in InitCalls : InitDetermine(c)
  \/ \E c \in InitCalls : InitPrepare(c)
  \/ \E c \in InitCalls : InitSync(c)
  \/ \E c \in InitCalls : InitConfigure(c)
  \/ \E c \in InitCalls : InitInstall(c)

NextRun ==
  \/ \E r \in RunCalls : RunStart(r)
  \/ \E r \in RunCalls : RunInvoke(r)
  \/ \E r \in RunCalls : RunSettle(r)
  \/ \E r \in RunCalls : RunReturn(r)

Next == NextInit

NextOnce == NextInit \/ NextRun

Spec == Init /\ [][Next]_vars

SpecRun == InitOnce /\ [][NextOnce]_vars

(***************************************************************************)
(* SpecDet: one _determineGitHubRepos call on a new GitHubConnection, for  *)
(* every pattern list and exclude list of the bounds.                      *)
(***************************************************************************)
MaxPatterns == 2

Patterns ==
  { <<"o", "/", "a">>,
    <<"o", "/", "b">>,
    <<"o", "/", "a", "#", "r">>,
    <<"o", "/", "*">>,
    <<"O", "/", "b", "*">>,
    <<"o", "/", "*", "#", "r">>,
    <<"o", "a">>,
    <<"o", "/", "a", "#", "r", "#", "s">>,
    <<"o", "/", "z">> }

ExcludeLists == { <<>>, << <<"o", "/", "a">> >>, << <<"O", "/", "A">> >> }

InitDet ==
  /\ InitWith({})
  /\ installed = {"git", "bower"}
  /\ cache = <<>>
  /\ dpc = "start"
  /\ dpatterns \in SeqsUpTo(Patterns, MaxPatterns)
  /\ dexcludes \in ExcludeLists
  /\ dallRepos = <<>>
  /\ dlookups = <<>>
  /\ drefs = <<>>
  /\ dres = <<>>
  /\ dresult = <<>>
  /\ derr = ""

NextDet ==
  \/ DetStart
  \/ \E k \in 1..Len(dlookups) : LookupResponse(k)
  \/ ExpandReturn
  \/ \E i \in 1..Len(dres) : ResolveResponse(i)
  \/ DetReturn

SpecDet == InitDet /\ [][NextDet]_vars

(***************************************************************************)
(* SpecGh: a client of one GitHubConnection that calls getRepoInfo and     *)
(* resetCache in any order, without waiting for the calls it made before.  *)
(* SpecList: a client that calls getOwnerRepos.                            *)
(* dres is the log of the getRepoInfo calls and dlookups the log of the    *)
(* getOwnerRepos calls.                                                    *)
(***************************************************************************)
MaxInfoCalls == 3
MaxOwnerCalls == 2

\* The references the client passes to getRepoInfo.
InfoRefs ==
  { [fullName |-> <<"o", "/", "a">>, ref |-> <<>>],
    [fullName |-> <<"o", "/", "a">>, ref |-> <<"r">>],
    [fullName |-> <<"o", "/", "c">>, ref |-> <<>>],
    [fullName |-> <<"O", "/", "a">>, ref |-> <<>>] }

\* The owners the client passes to getOwnerRepos.
ListedOwners == {<<"o">>, <<"p">>, <<"n">>}

InitGh ==
  /\ InitWith({})
  /\ installed = {"git", "bower"}
  /\ cache = <<>>
  /\ dpc = "client"
  /\ dpatterns = <<>>
  /\ dexcludes = <<>>
  /\ dallRepos = <<>>
  /\ dlookups = <<>>
  /\ drefs = <<>>
  /\ dres = <<>>
  /\ dresult = <<>>
  /\ derr = ""

\* The client calls getRepoInfo(ref).
GhGetRepoInfo ==
  /\ dpc = "client"
  /\ Len(dres) < MaxInfoCalls
  /\ \E ref \in InfoRefs : dres' = Append(dres, GetRepoInfoStart(ref))
  /\ UNCHANGED <<wsVars, runVars, syncVars, diskVars,
                 cache, dpc, dpatterns, dexcludes,
                 dallRepos, dlookups, drefs, dresult, derr>>

GhRepoInfoResponse(i) ==
  /\ dpc = "client"
  /\ GetRepoInfoResponse(i)
  /\ UNCHANGED <<wsVars, runVars, syncVars, diskVars,
                 dpc, dpatterns, dexcludes, dallRepos,
                 dlookups, drefs, dresult, derr>>

\* The client calls resetCache().
resetCache ==
  /\ dpc = "client"
  /\ cache' = <<>>
  /\ UNCHANGED <<wsVars, runVars, syncVars, diskVars,
                 dpc, dpatterns, dexcludes, dallRepos,
                 dlookups, drefs, dres, dresult, derr>>

\* The client calls getOwnerRepos(owner).
GhGetOwnerRepos ==
  /\ dpc = "client"
  /\ Len(dlookups) < MaxOwnerCalls
  /\ \E owner \in ListedOwners :
       dlookups' = Append(dlookups, GetOwnerReposStart(owner, <<>>))
  /\ UNCHANGED <<wsVars, runVars, syncVars, diskVars,
                 cache, dpc, dpatterns, dexcludes,
                 dallRepos, drefs, dres, dresult, derr>>

GhOwnerReposResponse(k) ==
  /\ dpc = "client"
  /\ GetOwnerReposResponse(k)
  /\ UNCHANGED <<wsVars, runVars, syncVars, diskVars,
                 dpc, dpatterns, dexcludes, dallRepos,
                 drefs, dres, dresult, derr>>

NextGh ==
  \/ GhGetRepoInfo
  \/ resetCache
  \/ \E i \in 1..Len(dres) : GhRepoInfoResponse(i)

SpecGh == InitGh /\ [][NextGh]_vars

NextListResponse == \E k \in 1..Len(dlookups) : GhOwnerReposResponse(k)

NextList ==
  \/ GhGetOwnerRepos
  \/ \E k \in 1..Len(dlookups) : GhOwnerReposResponse(k)

\* Every listing request is answered: by the hosting API or by an error of
\* the HTTP client.
SpecList == InitGh /\ [][NextList]_vars /\ WF_vars(NextListResponse)

(***************************************************************************)
(* SpecSync: one init call, with its synchronization phase in detail: one  *)
(* task per repository, given to localGitLimitter in repository order.     *)
(* localGitLimitter is a Bottleneck of 14: it runs at most 14 tasks at a   *)
(* time and starts the waiting ones first-come first-served, a new one as  *)
(* soon as a running one settles. The model keeps that rule and scales the *)
(* number to LocalGitLimit, so that tasks wait with MaxSyncRepos           *)
(* repositories.                                                           *)
(***************************************************************************)
MaxSyncRepos == 3
LocalGitLimit == 2

SyncNames == <<"a", "b", "c", "d", "e">>

\* What _determineGitHubRepos returned: n different repositories.
SyncRepoLists ==
  {[i \in 1..n |-> openWorkspaceRepo([owner |-> "o", name |-> SyncNames[i]])]
     : n \in 0..MaxSyncRepos}

Queued(ts) == {i \in 1..Len(ts) : ts[i].pc = "queued"}

Executing(ts) ==
  {i \in 1..Len(ts) :
     ts[i].pc \in {"admitted", "fetch", "reset", "clone", "checkout"}}

\* The first k waiting tasks are started.
AdmitFirst(ts, k) ==
  [i \in 1..Len(ts) |->
     IF i \in Queued(ts) /\ Cardinality({j \in Queued(ts) : j <= i}) <= k
       THEN [ts[i] EXCEPT !.pc = "admitted"]
       ELSE ts[i]]

\* localGitLimitter: waiting tasks are started, oldest first, while fewer
\* than the limit are running.
AdmitAll(ts) == AdmitFirst(ts, Len(ts))

AdmitNoneAfterFailure(ts) ==
  IF \E i \in 1..Len(ts) : ts[i].pc = "failed"
    THEN ts
    ELSE AdmitFirst(ts, LocalGitLimit - Cardinality(Executing(ts)))

AdmitNext(ts) ==
  AdmitFirst(ts, LocalGitLimit - Cardinality(Executing(ts)))

\* cloneOrUpdateWorkspaceRepo: where the task goes from `pc` when the
\* step it awaits succeeded (ok) or threw; git is what isGit() returned.
NextTaskPc(pc, ok, git) ==
  CASE pc = "admitted" -> IF git THEN "fetch" ELSE "clone"
    [] ~ok -> "failed"
    [] pc = "fetch" -> "reset"
    [] pc = "reset" -> "checkout"
    [] pc = "clone" -> "checkout"
    [] pc = "checkout" -> "ok"

\* Promise.all over the tasks: fulfilled when every task is, rejected as
\* soon as one is.
AllFulfilledNoWait(ts) == TRUE

AllFulfilled(ts) == \A i \in 1..Len(ts) : ts[i].pc = "ok"

SomeRejected(ts) == \E i \in 1..Len(ts) : ts[i].pc = "failed"

InitDetermineMany(c) ==
  \E repos \in SyncRepoLists :
    Step(c, "determine", "prepare", "prepare", "DetermineFailed", repos)

\* await this._prepareWorkspaceFolders(...), then the call of
\* _cloneOrUpdateWorkspaceRepos: every repository is scheduled.
InitPrepareSchedule(c) ==
  /\ ipc[c] = "prepare"
  /\ \/ /\ Fail(c, "PrepareFailed")
        /\ UNCHANGED <<ieffects, tasks>>
     \/ /\ ipc' = [ipc EXCEPT ![c] = "sync"]
        /\ ieffects' = [ieffects EXCEPT ![c] = @ \cup {"sync"}]
        /\ tasks' = AdmitNext([i \in 1..Len(irepos[c]) |->
                                 [pc |-> "queued"]])
        /\ UNCHANGED <<ierr, irepos>>
  /\ UNCHANGED <<initializedRepos, installed, runVars, detVars, diskVars>>

\* One step of the task of repository i.
TaskStep(i) ==
  /\ i \in Executing(tasks)
  /\ \E ok, git \in BOOLEAN :
       tasks' = AdmitNext([tasks EXCEPT
                             ![i].pc = NextTaskPc(tasks[i].pc, ok, git)])
  /\ UNCHANGED <<wsVars, runVars, detVars, diskVars>>

\* The Promise.all of _cloneOrUpdateWorkspaceRepos is fulfilled; init goes
\* on to call _configureBowerWorkspace.
SyncResolve(c) ==
  /\ ipc[c] = "sync"
  /\ AllFulfilled(tasks)
  /\ ipc' = [ipc EXCEPT ![c] = "configure"]
  /\ ieffects' = [ieffects EXCEPT ![c] = @ \cup {"configure"}]
  /\ UNCHANGED <<initializedRepos, installed, irepos, ierr, runVars,
                 detVars, syncVars, diskVars>>

\* The Promise.all is rejected; init throws.
SyncReject(c) ==
  /\ ipc[c] = "sync"
  /\ SomeRejected(tasks)
  /\ Fail(c, "SyncFailed")
  /\ UNCHANGED <<initializedRepos, installed, ieffects, runVars, detVars,
                 syncVars, diskVars>>

NextTask == \E i \in 1..Len(tasks) : TaskStep(i)

NextSync ==
  \/ \E c \in InitCalls : InitStart(c)
  \/ \E c \in InitCalls : InitCheckGit(c)
  \/ \E c \in InitCalls : InitCheckBower(c)
  \/ \E c \in InitCalls : InitDetermineMany(c)
  \/ \E c \in InitCalls : InitPrepareSchedule(c)
  \/ \E i \in 1..Len(tasks) : TaskStep(i)
  \/ \E c \in InitCalls : SyncResolve(c)
  \/ \E c \in InitCalls : SyncReject(c)
  \/ \E c \in InitCalls : InitConfigure(c)
  \/ \E c \in InitCalls : InitInstall(c)

SpecSync == InitOnce /\ [][NextSync]_vars

\* Every git command ends: it exits with success or with an error.
SpecSyncFair == InitOnce /\ [][NextSync]_vars /\ WF_vars(NextTask)

(***************************************************************************)
(* SpecApi: one _determineGitHubRepos call with one pattern more than      *)
(* githubApiLimitter lets run at a time. githubApiLimitter is a Bottleneck *)
(* of 12; as for localGitLimitter the model scales the number, to          *)
(* GithubApiLimit. No call of GitHubConnection goes through                *)
(* githubApiLimitter: a request is issued as soon as the method that makes *)
(* it reaches it.                                                          *)
(***************************************************************************)
GithubApiLimit == 2

ApiPatterns ==
  { <<"o", "/", "a">>,
    <<"o", "/", "b">>,
    <<"o", "/", "z">>,
    <<"o", "/", "*">> }

\* The hosting-API requests that are in flight: the repos.get requests of
\* getRepoInfo and the listing requests of getOwnerRepos.
ApiInFlight ==
  Cardinality({i \in 1..Len(dres) : dres[i].status = "pending"})
    + Cardinality({k \in 1..Len(dlookups) :
                     dlookups[k].pc \in {"org", "user"}})

InitApi ==
  /\ InitWith({})
  /\ installed = {"git", "bower"}
  /\ cache = <<>>
  /\ dpc = "start"
  /\ dpatterns \in {p \in [1..(GithubApiLimit + 1) -> ApiPatterns] :
                       \A i, j \in DOMAIN p : p[i] = p[j] => i = j}
  /\ dexcludes = <<>>
  /\ dallRepos = <<>>
  /\ dlookups = <<>>
  /\ drefs = <<>>
  /\ dres = <<>>
  /\ dresult = <<>>
  /\ derr = ""

SpecApi == InitApi /\ [][NextDet]_vars

(***************************************************************************)
(* SpecDisk: one init call, with the folders of the workspace: what        *)
(* _prepareWorkspaceFolders removes, what every task of the                *)
(* synchronization phase does to the folder of its repository, and what    *)
(* _configureBowerWorkspace writes. The git commands are external: a       *)
(* command succeeds or fails, and when it succeeds it has the effect git   *)
(* documents for it.                                                       *)
(***************************************************************************)
DiskNames == {<<"a">>, <<"b">>}

Target(owner, name, ref) ==
  ApplyRef(formatGitHubRepoFromApi(ApiRepo(owner, name, FALSE)), ref)

\* What _determineGitHubRepos may return: o/a and p/a have the same short
\* name, and a list may hold a repository more than once.
DiskTargets ==
  { Target(<<"o">>, <<"a">>, <<>>), Target(<<"p">>, <<"a">>, <<"x">>),
    Target(<<"o">>, <<"b">>, <<>>) }

DiskRepoLists ==
  {[i \in 1..Len(l) |-> openWorkspaceRepo(l[i])] :
     l \in SeqsUpTo(DiskTargets, MaxSyncRepos)}

\* A folder: none, a plain folder, or a git working directory with the url
\* it was cloned from and the ref that is checked out; `new` says that this
\* init call cloned it.
Absent == [kind |-> "none", url |-> <<>>, head |-> <<>>, new |-> FALSE]
Plain == [kind |-> "plain", url |-> <<>>, head |-> <<>>, new |-> FALSE]
OldClone(name) ==
  [kind |-> "git", url |-> ApiRepo(<<"o">>, name, FALSE).clone_url,
   head |-> <<"h">>, new |-> FALSE]

\* existsSync(repo.dir)
existsSync(rt, d, dir) == rt /\ d[dir].kind # "none"

\* GitRepo.isGit(): existsSync(path.join(cwd, '.git'))
isGit(rt, d, dir) == rt /\ d[dir].kind = "git"

\* The for-of loop of _prepareWorkspaceFolders from repos[i] on: the index
\* of the first repository whose folder it removes, Len(repos) + 1 when it
\* runs to its end.
RECURSIVE NextFolder(_, _, _, _)
NextFolder(repos, i, rt, d) ==
  IF i > Len(repos) THEN i
  ELSE IF existsSync(rt, d, repos[i].dir) /\ ~isGit(rt, d, repos[i].dir)
         THEN i
         ELSE NextFolder(repos, i + 1, rt, d)

\* await this._determineGitHubRepos(...), then map(_openWorkspaceRepo),
\* then _prepareWorkspaceFolders up to its first await: rimraf of the
\* workspace folder when fresh, else mkdirSync when the folder is missing
\* and the loop up to the first folder it removes.
DiskDetermine(c) ==
  /\ ipc[c] = "determine"
  /\ \/ /\ Fail(c, "DetermineFailed")
        /\ UNCHANGED <<ieffects, root, pidx>>
     \/ \E repos \in DiskRepoLists :
          /\ ipc' = [ipc EXCEPT ![c] = "prepare"]
          /\ ieffects' = [ieffects EXCEPT ![c] = @ \cup {"prepare"}]
          /\ irepos' = [irepos EXCEPT ![c] = repos]
          /\ root' = IF fresh THEN root ELSE TRUE
          /\ pidx' = IF fresh THEN 0 ELSE NextFolder(repos, 1, TRUE, disk)
          /\ UNCHANGED ierr
  /\ UNCHANGED <<initializedRepos, installed, runVars, detVars, syncVars,
                 fresh, disk, disk0, manifest, installs>>

\* await rimraf(workspaceDir) returns or throws; when it returns the folder
\* and all it held are gone, mkdirSync makes it anew and the loop finds no
\* folder.
PrepareRimrafRoot(c) ==
  /\ ipc[c] = "prepare"
  /\ fresh
  /\ pidx = 0
  /\ \/ /\ Fail(c, "PrepareFailed")
        /\ UNCHANGED <<root, disk, pidx>>
     \/ /\ root' = TRUE
        /\ disk' = [n \in DOMAIN disk |-> Absent]
        /\ pidx' = NextFolder(irepos[c], 1, TRUE, disk')
        /\ UNCHANGED <<ipc, ierr, irepos>>
  /\ UNCHANGED <<initializedRepos, installed, ieffects, runVars, detVars,
                 syncVars, fresh, disk0, manifest, installs>>

\* await rimraf(repo.dir) returns or throws; when it returns the folder is
\* gone and the loop goes on.
PrepareRimrafFolder(c) ==
  /\ ipc[c] = "prepare"
  /\ pidx \in 1..Len(irepos[c])
  /\ \/ /\ Fail(c, "PrepareFailed")
        /\ UNCHANGED <<disk, pidx>>
     \/ /\ disk' = [disk EXCEPT ![irepos[c][pidx].dir] = Absent]
        /\ pidx' = NextFolder(irepos[c], pidx + 1, root, disk')
        /\ UNCHANGED <<ipc, ierr, irepos>>
  /\ UNCHANGED <<initializedRepos, installed, ieffects, runVars, detVars,
                 syncVars, fresh, root, disk0, manifest, installs>>

\* The git command a task calls when it comes to `pc`, with its argument.
OpOf(pc, repo) ==
  [op |-> pc,
   arg |-> CASE pc = "clone" -> repo.github.cloneUrl
             [] pc = "checkout" ->
                  OrElse(repo.github.ref, repo.github.defaultBranch)
             [] OTHER -> <<>>]

\* The task goes to `pc`; ops is the log of the commands it called.
Advance(t, pc) ==
  [t EXCEPT !.pc = pc,
            !.ops = IF pc \in {"fetch", "reset", "clone", "checkout"}
                      THEN Append(@, OpOf(pc, t.repo))
                      ELSE @]

\* Every task the limiter has just started runs up to its first await:
\* isGit() chooses fetch or clone.
StartAdmitted(ts, rt, d) ==
  [i \in 1..Len(ts) |->
     IF ts[i].pc = "admitted"
       THEN Advance(ts[i], NextTaskPc("admitted", TRUE,
                                      isGit(rt, d, ts[i].repo.dir)))
       ELSE ts[i]]

\* _prepareWorkspaceFolders has returned; init calls
\* _cloneOrUpdateWorkspaceRepos, which schedules every repository.
DiskSchedule(c) ==
  /\ ipc[c] = "prepare"
  /\ pidx = Len(irepos[c]) + 1
  /\ ipc' = [ipc EXCEPT ![c] = "sync"]
  /\ ieffects' = [ieffects EXCEPT ![c] = @ \cup {"sync"}]
  /\ tasks' = StartAdmitted(
                AdmitNext([i \in 1..Len(irepos[c]) |->
                             [pc |-> "queued", repo |-> irepos[c][i],
                              ops |-> <<>>]]),
                root, disk)
  /\ UNCHANGED <<initializedRepos, installed, irepos, ierr, runVars,
                 detVars, diskVars>>

\* What the git command of `pc` does to the folder when it succeeds.
\* clone makes a working directory of the url with its default branch
\* checked out; checkout changes the ref that is checked out.
FolderAfter(folder, pc, repo) ==
  CASE pc = "clone" ->
         [kind |-> "git", url |-> repo.github.cloneUrl,
          head |-> repo.github.defaultBranch, new |-> TRUE]
    [] pc = "checkout" -> [folder EXCEPT !.head = OpOf(pc, repo).arg]
    [] OTHER -> folder

\* Whether the git command of `pc` can succeed: clone needs the folder not
\* to exist, the other commands need a working directory.
CanSucceed(pc, rt, d, dir) ==
  IF pc = "clone" THEN ~existsSync(rt, d, dir) ELSE isGit(rt, d, dir)

\* The git command that task i awaits ends; the task goes on to its next
\* command or settles, and the limiter starts the next waiting task.
DiskTaskStep(i) ==
  /\ i \in Executing(tasks)
  /\ LET repo == tasks[i].repo
         pc == tasks[i].pc
     IN \E ok \in {b \in BOOLEAN : b => CanSucceed(pc, root, disk, repo.dir)} :
          /\ disk' = IF ok
                       THEN [disk EXCEPT ![repo.dir] =
                                           FolderAfter(@, pc, repo)]
                       ELSE disk
          /\ tasks' = StartAdmitted(
                        AdmitNext([tasks EXCEPT ![i] =
                                     Advance(@, NextTaskPc(pc, ok, FALSE))]),
                        root, disk')
  /\ UNCHANGED <<wsVars, runVars, detVars, fresh, root, disk0, pidx,
                 manifest, installs>>

\* GitRepo.getHeadSha(): the revision that is checked out.
getHeadSha(folder) == folder.url \o <<"@">> \o folder.head

\* `./${repo.github.name}#${sha}`
DependencyEntry(name, sha) == <<".", "/">> \o name \o <<"#">> \o sha

\* The loop that leaves the merged declarations as they are.
PointAtWorkspaceNever(deps, repos, i, d) == deps

\* The for-of loop of _configureBowerWorkspace from repos[i] on.
RECURSIVE PointAtWorkspace(_, _, _, _)
PointAtWorkspace(deps, repos, i, d) ==
  IF i > Len(repos) THEN deps
  ELSE PointAtWorkspace(
         MapSet(deps, repos[i].github.name,
                DependencyEntry(repos[i].github.name,
                                getHeadSha(d[repos[i].dir]))),
         repos, i + 1, d)

\* mergedBowerConfigsFromRepos(repos).dependencies: the declarations of the
\* repositories, merged by name.
MergedConfigs ==
  { <<>>,
    [n \in {<<"a">>} |-> <<"1">>],
    [n \in {<<"a">>, <<"z">>} |-> <<"2">>] }

\* await this._configureBowerWorkspace(workspaceRepos): it throws when a
\* getHeadSha throws, else bower.json is written.
DiskConfigure(c) ==
  /\ ipc[c] = "configure"
  /\ \/ /\ Fail(c, "ConfigureFailed")
        /\ UNCHANGED <<ieffects, manifest>>
     \/ /\ \A i \in 1..Len(irepos[c]) : isGit(root, disk, irepos[c][i].dir)
        /\ \E merged \in MergedConfigs :
             manifest' = [dependencies |->
                            PointAtWorkspace(merged, irepos[c], 1, disk),
                          installs |-> installs]
        /\ ipc' = [ipc EXCEPT ![c] = "install"]
        /\ ieffects' = [ieffects EXCEPT ![c] = @ \cup {"install"}]
        /\ UNCHANGED <<ierr, irepos>>
  /\ UNCHANGED <<initializedRepos, installed, runVars, detVars, syncVars,
                 fresh, root, disk, disk0, pidx, installs>>

\* await this._installWorkspaceDependencies(): `bower install -F` has run;
\* then this._initializedRepos = workspaceRepos; return.
DiskInstall(c) ==
  /\ ipc[c] = "install"
  /\ installs' = installs + 1
  /\ \E ok \in BOOLEAN :
       /\ initializedRepos' = InitializedAfterInstall(c, ok)
       /\ IF ok
            THEN /\ ipc' = [ipc EXCEPT ![c] = "done"]
                 /\ UNCHANGED <<ierr, irepos>>
            ELSE Fail(c, "InstallFailed")
  /\ UNCHANGED <<installed, ieffects, runVars, detVars, syncVars,
                 fresh, root, disk, disk0, pidx, manifest>>

\* Without the workspace folder there is no folder in it. The folder a is
\* missing, a plain folder or a clone of o/a; there is no folder b.
InitDisk ==
  /\ InitWorkspace({1})
  /\ installed = {"git", "bower"}
  /\ DetIdle
  /\ fresh \in BOOLEAN
  /\ root \in BOOLEAN
  /\ disk \in [DiskNames -> {Absent, Plain} \cup
                            {OldClone(n) : n \in DiskNames}]
  /\ \A n \in DiskNames :
       /\ ~root \/ n # <<"a">> => disk[n] = Absent
       /\ disk[n].kind = "git" => disk[n] = OldClone(n)
  /\ disk0 = disk
  /\ pidx = 0
  /\ manifest = <<>>
  /\ installs = 0

NextDiskTask == \E i \in 1..Len(tasks) : DiskTaskStep(i)

NextDisk ==
  \/ \E c \in InitCalls : InitStart(c)
  \/ \E c \in InitCalls : InitCheckGit(c)
  \/ \E c \in InitCalls : InitCheckBower(c)
  \/ \E c \in InitCalls : DiskDetermine(c)
  \/ \E c \in InitCalls : PrepareRimrafRoot(c)
  \/ \E c \in InitCalls : PrepareRimrafFolder(c)
  \/ \E c \in InitCalls : DiskSchedule(c)
  \/ \E i \in 1..Len(tasks) : DiskTaskStep(i)
  \/ \E c \in InitCalls : SyncResolve(c)
  \/ \E c \in InitCalls : SyncReject(c)
  \/ \E c \in InitCalls : DiskConfigure(c)
  \/ \E c \in InitCalls : DiskInstall(c)

SpecDisk == InitDisk /\ [][NextDisk]_vars

(***************************************************************************)
(* Properties of init and run.                                             *)
(***************************************************************************)
AllEffects == {"api", "prepare", "sync", "configure", "install"}

NoInitCompleted == \A c \in InitCalls : ipc[c] # "done"

\* C1: an init call made when an earlier init call has completed fails with
\* AlreadyInitialized in its first step, before it begins any outward-facing
\* step (hosting-API use, disk change), it never begins one later, and its
\* failing leaves the recorded repository set as it was.
C1_SecondInitRejected ==
  [][\A c \in InitCalls :
       /\ (ipc[c] = "idle" /\ ipc'[c] # "idle" /\ initializedRepos.set)
            => /\ ipc'[c] = "failed"
               /\ ierr'[c] = "AlreadyInitialized"
               /\ ieffects'[c] = {}
               /\ initializedRepos' = initializedRepos
       /\ ierr[c] = "AlreadyInitialized"
            => /\ ipc'[c] = "failed"
               /\ ierr'[c] = "AlreadyInitialized"
               /\ ieffects'[c] = {}]_vars

C1_Witness ==
  \E b, c \in InitCalls :
    /\ ipc[b] = "done"
    /\ initializedRepos = [set |-> TRUE, repos |-> irepos[b]]
    /\ ierr[c] = "AlreadyInitialized"

\* C2: the initialized repository set is assigned at most once: once it is
\* set, no step of any init call changes it.
C2_AssignedOnce ==
  [][initializedRepos.set => initializedRepos' = initializedRepos]_vars

\* C3: a run call made while no init call has completed fails with
\* NotInitialized, a failed run call has invoked fn zero times, and the
\* initialized set is recorded only by an init call that went through every
\* step, install included.
C3_RunNeedsCompletedInit ==
  [][\A r \in RunCalls :
       /\ (rpc[r] = "idle" /\ rpc'[r] # "idle" /\ NoInitCompleted)
            => rpc'[r] = "failed" /\ rerr'[r] = "NotInitialized"
       /\ rpc'[r] = "failed"
            => rfn'[r] = <<>> /\ rerr'[r] = "NotInitialized"
       /\ NoInitCompleted' => rfn'[r] = <<>>
       /\ initializedRepos'.set
            => \E c \in InitCalls :
                 ipc'[c] = "done" /\ ieffects'[c] = AllEffects]_vars

C3_Witness ==
  \E r \in RunCalls, c \in InitCalls :
    /\ ierr[c] = "InstallFailed"
    /\ rpc[r] = "failed"
    /\ rerr[r] = "NotInitialized"

Settled(r, ok) ==
  {i \in 1..Len(rfn[r]) :
     rfn[r][i].settled /\ ((rfn[r][i].result = "ok") <=> ok)}

\* C4: run passes the repositories of the sequence it iterates to fn one by
\* one in sequence order; successRuns holds exactly the positions whose fn
\* completed, in increasing order, failRuns maps exactly the positions whose
\* fn threw to the thrown error; when run returns every position has been
\* passed to fn and has settled; run itself fails only with NotInitialized.
C4_RunPartitions ==
  \A r \in RunCalls :
    /\ Len(rfn[r]) <= Len(rrepos[r])
    /\ \A i \in 1..Len(rfn[r]) : rfn[r][i].repo = rrepos[r][i]
    /\ {rsucc[r][j] : j \in 1..Len(rsucc[r])} = Settled(r, TRUE)
    /\ \A j \in 1..(Len(rsucc[r]) - 1) : rsucc[r][j] < rsucc[r][j + 1]
    /\ rfail[r] = {<<i, rfn[r][i].result>> : i \in Settled(r, FALSE)}
    /\ rpc[r] = "done"
         => Settled(r, TRUE) \cup Settled(r, FALSE) = 1..Len(rrepos[r])
    /\ rpc[r] = "failed" => rerr[r] = "NotInitialized"

C4_Witness ==
  \E r \in RunCalls :
    /\ rpc[r] = "done"
    /\ rsucc[r] = <<2>>
    /\ rfail[r] = {<<1, "E1">>}

\* C5: during one run call at most one invocation of fn is unsettled, and
\* it is the latest one: the next starts only after it has settled.
C5_OneFnInFlight ==
  \A r \in RunCalls :
    /\ Cardinality(InFlight(r)) <= 1
    /\ InFlight(r) \subseteq {Len(rfn[r])}

C5_Witness ==
  \E r \in RunCalls : InFlight(r) = {2} /\ rfn[r][1].settled

\* C6: when git or bower is not available, every init call fails with
\* MissingDependency during validation, and an init call that failed so has
\* begun no outward-facing step (no hosting-API use, no disk change).
C6_PreflightBeforeMutation ==
  \A c \in InitCalls :
    /\ ierr[c] = "MissingDependency" => ieffects[c] = {}
    /\ installed # {"git", "bower"}
         => /\ ipc[c] \in {"idle", "checkGit", "checkBower", "failed"}
            /\ ipc[c] = "failed" => ierr[c] = "MissingDependency"
            /\ ieffects[c] = {}

C6_Witness ==
  \E c \in InitCalls :
    /\ ierr[c] = "MissingDependency"
    /\ installed = {"git"}

(***************************************************************************)
(* Properties of _determineGitHubRepos and expandRepoPatterns.             *)
(***************************************************************************)
Resolved == {i \in 1..Len(dres) : dres[i].status = "ok"}

LowerNames(list) == {ToLowerCase(list[i]) : i \in 1..Len(list)}

\* C7: every reference left by the exclude filter gets its getRepoInfo
\* call; what the call returns is exactly the repositories of the
\* references whose lookup succeeded, in reference order, each carrying the
\* reference's ref (or the default branch); and the call never fails
\* because a lookup failed: it fails only before any lookup is started.
C7_ResolveIndependent ==
  /\ dpc \in {"resolve", "done"}
       => /\ Len(dres) = Len(drefs)
          /\ \A i \in 1..Len(dres) : dres[i].ref = drefs[i]
  /\ dpc = "done"
       => /\ Len(dresult) = Cardinality(Resolved)
          /\ \A i \in Resolved :
               LET repo == dresult[Cardinality({j \in Resolved : j <= i})]
               IN /\ repo = dres[i].repo
                  /\ ToLowerCase(repo.fullName)
                       = ToLowerCase(drefs[i].fullName)
                  /\ repo.ref = OrElse(drefs[i].ref, repo.defaultBranch)
  /\ dpc = "failed"
       => dres = <<>> /\ derr \in {"TypeError", "MalformedPattern"}

C7_Witness ==
  /\ dpc = "done"
  /\ Len(dres) = 2
  /\ dres[1].status = "error"
  /\ dres[2].status = "ok"
  /\ dresult = <<dres[2].repo>>

\* C8: with a non-empty exclude list (and patterns that all parse) the
\* call does not fail, and the references it goes on to resolve are exactly
\* the expanded references whose lower-cased fullName is not the
\* lower-cased form of an exclude entry.
C8_ExcludesDropped ==
  (/\ dexcludes # <<>>
   /\ dpatterns # <<>>
   /\ ~ScanPatterns(dpatterns, <<>>, <<>>).threw
   /\ dpc # "start")
    => /\ dpc # "failed"
       /\ dpc \in {"resolve", "done"}
            => /\ \A i \in 1..Len(drefs) :
                    ToLowerCase(drefs[i].fullName) \notin LowerNames(dexcludes)
               /\ \A i \in 1..Len(dallRepos) :
                    ToLowerCase(dallRepos[i].fullName)
                        \notin LowerNames(dexcludes)
                      => \E j \in 1..Len(drefs) : drefs[j] = dallRepos[i]

\* C9: a malformed pattern never makes the call fail: with an empty
\* exclude list the call does not fail, whatever the pattern list.
C9_MalformedNeverFatal ==
  dexcludes = <<>> => dpc # "failed" /\ derr = ""

\* C10: the references expandRepoPatterns returns have pairwise different
\* fullNames.
C10_OnePerFullName ==
  dpc \in {"resolve", "done"}
    => \A i, j \in 1..Len(dallRepos) :
         dallRepos[i].fullName = dallRepos[j].fullName => i = j

(***************************************************************************)
(* Properties of the GitHubConnection cache.                               *)
(***************************************************************************)
Metadata(repo) ==
  [owner |-> repo.owner, name |-> repo.name, fullName |-> repo.fullName,
   cloneUrl |-> repo.cloneUrl, defaultBranch |-> repo.defaultBranch]

\* The getRepoInfo call that this step starts, if it starts one.
CallStarts == Len(dres') = Len(dres) + 1

\* C11: a getRepoInfo call made while its fullName is in the cache returns
\* the cached metadata at once and issues no request; a successful lookup
\* puts its fullName into the cache; an entry leaves the cache only when
\* the whole cache is emptied (resetCache); and a call made while its
\* fullName is not in the cache issues a request.
C11_CacheHitUntilReset ==
  [][/\ CallStarts =>
          LET call == dres'[Len(dres')]
              f == call.ref.fullName
          IN IF f \in DOMAIN cache
               THEN /\ ~call.request
                    /\ call.status = "ok"
                    /\ Metadata(call.repo) = cache[f]
               ELSE call.request /\ call.status = "pending"
     /\ \A i \in 1..Len(dres) :
          dres[i].status = "pending" /\ dres'[i].status = "ok"
            => /\ dres[i].ref.fullName \in DOMAIN cache'
               /\ cache'[dres[i].ref.fullName] = Metadata(dres'[i].repo)
     /\ \A f \in DOMAIN cache : f \in DOMAIN cache' \/ cache' = <<>>]_vars

C11_Witness ==
  /\ Len(dres) = 3
  /\ \A i \in 1..3 : dres[i].ref.fullName = <<"o", "/", "a">>
  /\ dres[1].request /\ dres[1].status = "ok"
  /\ ~dres[2].request /\ dres[2].status = "ok"
  /\ dres[3].request

\* C12: no cache entry holds a ref, and every repository getRepoInfo
\* returned carries the ref of the reference of its own call, or the
\* default branch when that reference has none, on a hit as on a miss.
C12_RefNeverCached ==
  /\ \A f \in DOMAIN cache : "ref" \notin DOMAIN cache[f]
  /\ \A i \in 1..Len(dres) :
       dres[i].status = "ok"
         => dres[i].repo.ref = IF dres[i].ref.ref # <<>>
                                 THEN dres[i].ref.ref
                                 ELSE dres[i].repo.defaultBranch

C12_Witness ==
  /\ Len(dres) >= 2
  /\ dres[1].ref = [fullName |-> <<"o", "/", "a">>, ref |-> <<"r">>]
  /\ dres[1].status = "ok" /\ dres[1].repo.ref = <<"r">>
  /\ dres[2].ref = [fullName |-> <<"o", "/", "a">>, ref |-> <<>>]
  /\ ~dres[2].request
  /\ dres[2].status = "ok" /\ dres[2].repo.ref = <<"m">>

\* C13: a lookup that is answered "moved permanently" fails and leaves the
\* cache as it was, as every failed lookup does, and a call made while its
\* fullName is not in the cache issues a request.
C13_MovedNotCached ==
  [][/\ \A i \in 1..Len(dres) :
          dres[i].status = "pending" /\ dres'[i].status = "error"
            => cache' = cache
     /\ cache' # cache /\ cache' # <<>>
          => \E i \in 1..Len(dres) :
               dres[i].status = "pending" /\ dres'[i].status = "ok"
     /\ CallStarts /\ dres'[Len(dres')].ref.fullName \notin DOMAIN cache
          => dres'[Len(dres')].request]_vars

C13_Witness ==
  /\ Len(dres) >= 2
  /\ dres[1].status = "error" /\ dres[1].repo = "moved"
  /\ dres[2].ref.fullName = dres[1].ref.fullName
  /\ dres[2].request
  /\ dres[1].ref.fullName \notin DOMAIN cache

(***************************************************************************)
(* Properties of getOwnerRepos.                                            *)
(***************************************************************************)
Names(repos) == {repos[i].fullName : i \in 1..Len(repos)}

PublicNames(owner) ==
  {r.full_name : r \in {w \in WorldRepos : w.owner.login = owner
                                            /\ ~w.private}}

PrivateNames == {r.full_name : r \in {w \in WorldRepos : w.private}}

OrgOnly(l) == \A j \in 1..Len(l.requests) : l.requests[j].style = "org"

\* C14: a getOwnerRepos call whose requests all succeeded returns exactly
\* the non-private repositories of the owner over all pages of the listing,
\* and no listing puts a private repository into the cache.
C14_ListingFiltersPrivate ==
  /\ \A k \in 1..Len(dlookups) :
       dlookups[k].pc = "done" /\ OrgOnly(dlookups[k])
         => Names(dlookups[k].repos) = PublicNames(dlookups[k].owner)
  /\ DOMAIN cache \cap PrivateNames = {}

\* C15: a getOwnerRepos call starts with the organization-style request for
\* page 0; the request after a failed organization-style request is the
\* user-style request for the same page, and no organization-style request
\* follows a user-style one; and a call whose user-style request failed has
\* stopped and returns the empty sequence.
C15_OrgThenUserThenEmpty ==
  \A k \in 1..Len(dlookups) :
    LET l == dlookups[k]
    IN /\ l.requests[1] = [style |-> "org", page |-> 0]
       /\ \A j \in 1..(Len(l.requests) - 1) :
            /\ l.requests[j].style = "user"
                 => l.requests[j + 1].style = "user"
            /\ l.requests[j].style # l.requests[j + 1].style
                 => l.requests[j].page = l.requests[j + 1].page
       /\ l.failed => l.pc = "done" /\ l.repos = <<>>

\* C16: a getOwnerRepos call requests the pages 0, 1, 2, ... in order (a
\* page is requested a second time only user-style, after the
\* organization-style request for it failed), it has issued one more
\* request after every page that came back non-empty, and it stops only
\* at a page that came back empty or at a failed user-style request.
C16_PaginationUntilEmptyPage ==
  \A k \in 1..Len(dlookups) :
    LET l == dlookups[k]
        last == l.requests[Len(l.requests)]
    IN /\ l.requests[1].page = 0
       /\ \A j \in 1..(Len(l.requests) - 1) :
            l.requests[j + 1].page =
              IF l.requests[j].style = l.requests[j + 1].style
                THEN l.requests[j].page + 1
                ELSE l.requests[j].page
       /\ \A j \in 1..(Len(l.requests) - 1) :
            l.requests[j + 1].page = l.requests[j].page + 1
              => WorldPage(l.owner, l.requests[j].page) # <<>>
       /\ l.pc = "done" /\ ~l.failed
            => WorldPage(l.owner, last.page) = <<>>

(***************************************************************************)
(* Properties of the synchronization phase.                                *)
(***************************************************************************)
TaskSettled(i) == tasks[i].pc \in {"ok", "failed"}

C19_MergeAfterBarrier ==
  \A c \in InitCalls :
    "configure" \in ieffects[c]
      => /\ \A i \in 1..Len(tasks) : TaskSettled(i)
         /\ Len(tasks) = Len(irepos[c]) \/ ipc[c] = "failed"

C19_Witness ==
  \E c \in InitCalls :
    /\ ipc[c] = "configure"
    /\ Len(tasks) = 3
    /\ \A i \in 1..3 : tasks[i].pc = "ok"

\* C20: every scheduled task is eventually started and runs to its own
\* success or failure, whatever happens to the other tasks and to init.
C20_TasksIndependent ==
  \A i \in 1..MaxSyncRepos :
    (Len(tasks) >= i) ~> (Len(tasks) >= i /\ TaskSettled(i))

C20_Witness ==
  /\ Len(tasks) = 3
  /\ tasks[1].pc = "failed"
  /\ tasks[2].pc = "ok"
  /\ tasks[3].pc = "ok"
  /\ ipc[1] = "failed" /\ ierr[1] = "SyncFailed"

(***************************************************************************)
(* Properties of the hosting-API requests.                                 *)
(***************************************************************************)
\* C18: at every moment the number of hosting-API requests in flight is at
\* most the limit of githubApiLimitter.
C18_ApiLimiterBound == ApiInFlight <= GithubApiLimit

(***************************************************************************)
(* Properties of the folders of the workspace.                             *)
(***************************************************************************)
PrepareReturned(c) == ipc[c] = "prepare" /\ pidx = Len(irepos[c]) + 1

SyncSucceeded(c) == "configure" \in ieffects[c]

Dirs(repos) == {repos[i].dir : i \in 1..Len(repos)}

TaskDirs == {tasks[i].repo.dir : i \in 1..Len(tasks)}

\* The repositories up to the prepare phase have one folder each.
C21_PrepareEnd ==
  \A c \in InitCalls :
    /\ tasks # <<>> => ipc[c] # "prepare" /\ pidx = Len(tasks) + 1
    /\ PrepareReturned(c)
         => /\ root
            /\ \A dir \in Dirs(irepos[c]) :
                 /\ existsSync(root, disk, dir) => isGit(root, disk, dir)
                 /\ disk0[dir].kind = "plain" => ~existsSync(root, disk, dir)
    /\ SyncSucceeded(c)
         => \A dir \in TaskDirs :
              disk0[dir].kind = "plain"
                => disk[dir].kind = "git" /\ disk[dir].new

\* C21: no task is scheduled before _prepareWorkspaceFolders has returned;
\* when it has returned the workspace folder exists, no folder of a
\* WorkspaceRepo exists without being a git working directory, and a
\* folder that was a plain folder is gone; after a successful
\* synchronization such a folder is a clone made by this init; with fresh
\* every task takes the clone branch.
C21_PrepareThenClone ==
  /\ C21_PrepareEnd
  /\ fresh => \A i \in 1..Len(tasks) :
                tasks[i].ops # <<>> => tasks[i].ops[1].op = "clone"

(***************************************************************************)
(* Properties of a synchronization task.                                   *)
(***************************************************************************)
ResolvedRef(repo) == OrElse(repo.github.ref, repo.github.defaultBranch)

UpdateOps(repo) ==
  << [op |-> "fetch", arg |-> <<>>], [op |-> "reset", arg |-> <<>>],
     [op |-> "checkout", arg |-> ResolvedRef(repo)] >>

CloneOps(repo) ==
  << [op |-> "clone", arg |-> repo.github.cloneUrl],
     [op |-> "checkout", arg |-> ResolvedRef(repo)] >>

IsPrefix(s, t) == Len(s) <= Len(t) /\ \A k \in 1..Len(s) : s[k] = t[k]

\* The commands a task has called are a beginning of fetch, reset,
\* checkout or of clone, checkout; all of them when the task succeeded, and
\* the last of them is the one that failed when it failed.
C22_TaskOrder ==
  \A i \in 1..Len(tasks) :
    LET t == tasks[i]
    IN /\ \/ IsPrefix(t.ops, UpdateOps(t.repo))
          \/ IsPrefix(t.ops, CloneOps(t.repo))
       /\ t.pc = "queued" <=> t.ops = <<>>
       /\ t.pc = "ok" => t.ops \in {UpdateOps(t.repo), CloneOps(t.repo)}
       /\ t.pc \in {"fetch", "reset", "clone", "checkout"}
            => t.ops[Len(t.ops)].op = t.pc

\* A task that starts takes the fetch branch exactly when its folder is a
\* git working directory at that moment; a task that has settled calls
\* nothing more, and the failure of a task changes no other task that has
\* started.
C22_TaskSteps ==
  [][\A i \in 1..Len(tasks') :
       /\ (tasks = <<>> \/ tasks[i].pc = "queued") /\ tasks'[i].pc # "queued"
            => tasks'[i].ops[1].op =
                 IF isGit(root', disk', tasks'[i].repo.dir) THEN "fetch"
                                                             ELSE "clone"
       /\ tasks # <<>> /\ TaskSettled(i) => tasks'[i] = tasks[i]
       /\ tasks # <<>> /\ tasks[i].pc # "queued"
            /\ (\E j \in 1..Len(tasks) :
                  j # i /\ ~TaskSettled(j) /\ tasks'[j].pc = "failed")
            => tasks'[i] = tasks[i]]_vars

\* C22: a task calls fetch then reset, or clone with the clone url of its
\* repository, and then one checkout of the resolved ref (the default
\* branch when there is none), and stops at the first command that fails;
\* after a successful synchronization the ref checked out in the folder of
\* every WorkspaceRepo is its resolved ref.
C22_SyncThenCheckedOut ==
  /\ C22_TaskOrder
  /\ \A c \in InitCalls :
       SyncSucceeded(c)
         => \A i \in 1..Len(tasks) :
              disk[tasks[i].repo.dir].head = ResolvedRef(tasks[i].repo)

(***************************************************************************)
(* Properties of the manifest.                                             *)
(***************************************************************************)
\* C23: when init has succeeded bower.json has been written, and for every
\* WorkspaceRepo its dependency of the repository's name is the folder of
\* the repository at the revision checked out there after the
\* synchronization, whatever the merged declarations said; bower install
\* has run once, and had not run when bower.json was written.
C23_ManifestPointsAtWorkspace ==
  /\ installs <= 1
  /\ installs = 1 => manifest # <<>> /\ manifest.installs = 0
  /\ \A c \in InitCalls :
       ipc[c] = "done"
         => /\ installs = 1
            /\ \A i \in 1..Len(irepos[c]) :
                 LET repo == irepos[c][i]
                 IN /\ repo.github.name \in DOMAIN manifest.dependencies
                    /\ manifest.dependencies[repo.github.name] =
                         DependencyEntry(repo.github.name,
                                         getHeadSha(disk[repo.dir]))

\* init succeeded with two repositories, one of them named in the merged
\* declarations with another version.
C23_Witness ==
  /\ ipc[1] = "done"
  /\ Dirs(irepos[1]) = {<<"a">>, <<"b">>}
  /\ <<"z">> \in DOMAIN manifest.dependencies
  /\ manifest.dependencies[<<"a">>] # <<"2">>

(***************************************************************************)
(* Properties of the wildcard patterns.                                    *)
(***************************************************************************)
\* The different patterns with a "/" and a "*", in the order they are
\* given.
RECURSIVE WildcardPatterns(_)
WildcardPatterns(pats) ==
  IF pats = <<>> THEN <<>>
  ELSE LET rest == WildcardPatterns(SubSeq(pats, 1, Len(pats) - 1))
           p == pats[Len(pats)]
       IN IF Contains(p, "/") /\ Contains(p, "*")
               /\ \A i \in 1..Len(rest) : rest[i] # p
            THEN Append(rest, p)
            ELSE rest

DirectPatterns(pats) ==
  {i \in 1..Len(pats) : Contains(pats[i], "/") /\ ~Contains(pats[i], "*")}

TextBefore(s, ch) == SubSeq(s, 1, IndexOf(s, ch) - 1)

TextAfter(s, ch) ==
  IF Contains(s, ch) THEN SubSeq(s, IndexOf(s, ch) + 1, Len(s)) ELSE <<>>

\* The reference that a listed repository gives under a pattern.
ReferenceUnder(pattern, listed) ==
  [owner |-> listed.owner, name |-> listed.name,
   fullName |-> listed.fullName,
   ref |-> IF TextAfter(pattern, "#") # <<>> THEN TextAfter(pattern, "#")
                                             ELSE listed.defaultBranch]

\* How many repositories the first k listings returned, as far as they
\* have returned.
RECURSIVE ListedByFinished(_)
ListedByFinished(k) ==
  IF k = 0 THEN 0
  ELSE ListedByFinished(k - 1)
         + (IF dlookups[k].pc = "done" THEN Len(dlookups[k].repos) ELSE 0)

C25_KeyIsFullName ==
  /\ \A key \in DOMAIN cache : cache[key].fullName = key
  /\ \A k1, k2 \in DOMAIN cache :
       cache[k1].fullName = cache[k2].fullName => k1 = k2

(***************************************************************************)
(* Properties of the tasks in the workspace.                               *)
(***************************************************************************)
\* C26: the WorkspaceRepos of an init have different folders, and no two
\* tasks that are executing have the same folder.
C26_OneFolderPerRepo ==
  /\ \A c \in InitCalls :
       \A i, j \in 1..Len(irepos[c]) :
         irepos[c][i].dir = irepos[c][j].dir => i = j
  /\ \A i, j \in Executing(tasks) :
       tasks[i].repo.dir = tasks[j].repo.dir => i = j

\* C27: when init has returned or thrown, none of the tasks it scheduled
\* is executing and none waits in the limiter.
C27_SettledAfterTasks ==
  \A c \in InitCalls :
    ipc[c] \in {"done", "failed"}
      => Executing(tasks) = {} /\ Queued(tasks) = {}

====
